---------------------------- MODULE Spec2Model ----------------------------
(***************************************************************************)
(* Bank-statement extraction (skywardcloud/AccAuto): the column matcher,   *)
(* the field normalizers, the table-to-transactions converter, the two     *)
(* structured PDF strategies, the PDF pipeline, the OCR/LLM extractor and  *)
(* the upload handler, as state machines over small concrete inputs.       *)
(*                                                                         *)
(* Text is a tuple of one-character strings, so that strip, lower, the     *)
(* regular expressions and the float/date parsers are computed character   *)
(* by character as the code computes them.                                 *)
(***************************************************************************)
EXTENDS Integers, Sequences, FiniteSets, TLC

(***************************************************************************)
(* Python values held in cells and in transaction dicts.                   *)
(***************************************************************************)
\* None, and pandas' NaN of an empty cell (pd.notnull is False on both)
PyNone == [t |-> "None"]
\* a str
PyStr(s) == [t |-> "str", v |-> s]
\* a float, carried in hundredths (1234.56 is 123456)
PyFloat(n) == [t |-> "float", v |-> n]

\* pd.notnull on a scalar
notnull(x) == x.t # "None"

\* str(x) of a cell: a str is itself; the only float a cell holds is the 0.0 that
\* line 93 fills in
str(x) ==
    CASE x.t = "str" -> x.v
      [] x.t = "None" -> <<"N", "o", "n", "e">>
      [] OTHER -> <<"0", ".", "0">>

(***************************************************************************)
(* Characters.                                                             *)
(***************************************************************************)
DigitSeq == <<"0", "1", "2", "3", "4", "5", "6", "7", "8", "9">>
UpperSeq == <<"A", "B", "C", "D", "E", "F", "G", "H", "I", "J", "K", "L", "M", "N", "O", "P", "Q", "R", "S", "T", "U", "V", "W", "X", "Y", "Z">>
LowerSeq == <<"a", "b", "c", "d", "e", "f", "g", "h", "i", "j", "k", "l", "m", "n", "o", "p", "q", "r", "s", "t", "u", "v", "w", "x", "y", "z">>
Range(f) == {f[i] : i \in DOMAIN f}
IsDigit(c) == c \in Range(DigitSeq)
\* \w of Python's re
IsWordChar(c) == c \in Range(DigitSeq) \cup Range(UpperSeq) \cup Range(LowerSeq) \cup {"_"}
IsSpace(c) == c \in {" ", "\t", "\n"}
DigitVal(c) == (CHOOSE i \in DOMAIN DigitSeq : DigitSeq[i] = c) - 1
DigitChar(n) == DigitSeq[n + 1]
LowerChar(c) ==
    IF c \in Range(UpperSeq)
    THEN LowerSeq[CHOOSE i \in DOMAIN UpperSeq : UpperSeq[i] = c]
    ELSE c

\* str.lower()
lower(s) == [i \in DOMAIN s |-> LowerChar(s[i])]
\* str.strip()
strip(s) ==
    LET keep == {i \in DOMAIN s : ~IsSpace(s[i])}
    IN  IF keep = {} THEN <<>>
        ELSE LET lo == CHOOSE i \in keep : \A j \in keep : i <= j
                 hi == CHOOSE i \in keep : \A j \in keep : j <= i
             IN  SubSeq(s, lo, hi)
\* str.replace(c, '') and re.sub of a character class: the characters kept, in order
RECURSIVE KeepChars(_, _)
KeepChars(s, ok) ==
    IF s = <<>> THEN <<>>
    ELSE (IF Head(s) \in ok THEN <<Head(s)>> ELSE <<>>) \o KeepChars(Tail(s), ok)
RECURSIVE DropChar(_, _)
DropChar(s, c) ==
    IF s = <<>> THEN <<>>
    ELSE (IF Head(s) = c THEN <<>> ELSE <<Head(s)>>) \o DropChar(Tail(s), c)

(***************************************************************************)
(* Column Matcher.                                                         *)
(***************************************************************************)
\* the five standard keys, in the insertion order of _COLUMN_MAP
StdKeys == <<<<"d", "a", "t", "e">>, <<"d", "e", "s", "c", "r", "i", "p", "t", "i", "o", "n">>, <<"d", "e", "b", "i", "t">>, <<"c", "r", "e", "d", "i", "t">>, <<"b", "a", "l", "a", "n", "c", "e">>>>
_COLUMN_MAP ==
    << {<<"d", "a", "t", "e">>, <<"t", "x", "n", " ", "d", "a", "t", "e">>, <<"t", "r", "a", "n", "s", "a", "c", "t", "i", "o", "n", " ", "d", "a", "t", "e">>},
       {<<"p", "a", "r", "t", "i", "c", "u", "l", "a", "r", "s">>, <<"d", "e", "s", "c", "r", "i", "p", "t", "i", "o", "n">>, <<"d", "e", "t", "a", "i", "l", "s">>, <<"t", "r", "a", "n", "s", "a", "c", "t", "i", "o", "n", " ", "d", "e", "t", "a", "i", "l", "s">>,
        <<"n", "a", "r", "r", "a", "t", "i", "o", "n">>, <<"d", "e", "s", "c">>},
       {<<"d", "e", "b", "i", "t">>, <<"w", "i", "t", "h", "d", "r", "a", "w", "a", "l">>, <<"w", "i", "t", "h", "d", "r", "a", "w", "a", "l", "s">>, <<"w", "i", "t", "h", "d", "r", "a", "w", "n">>, <<"d", "r">>},
       {<<"c", "r", "e", "d", "i", "t">>, <<"d", "e", "p", "o", "s", "i", "t">>, <<"d", "e", "p", "o", "s", "i", "t", "s">>, <<"c", "r">>},
       {<<"b", "a", "l", "a", "n", "c", "e">>, <<"c", "l", "o", "s", "i", "n", "g", " ", "b", "a", "l", "a", "n", "c", "e">>, <<"a", "v", "a", "i", "l", "a", "b", "l", "e", " ", "b", "a", "l", "a", "n", "c", "e">>} >>

\* re.search(pat, s), without the two \b: pat occurs anywhere in s
re_search_word_Substring(pat, s) ==
    \E i \in 1..(Len(s) - Len(pat) + 1) : SubSeq(s, i, i + Len(pat) - 1) = pat

\* re.search(rf'\b{pat}\b', s): pat occurs in s between two word boundaries
\* (every pattern starts and ends with a letter)
re_search_word(pat, s) ==
    \E i \in 1..(Len(s) - Len(pat) + 1) :
        /\ SubSeq(s, i, i + Len(pat) - 1) = pat
        /\ (i = 1 \/ ~IsWordChar(s[i - 1]))
        /\ (i + Len(pat) - 1 = Len(s) \/ ~IsWordChar(s[i + Len(pat)]))

\* the least element of a non-empty set of numbers
Min(set) == CHOOSE k \in set : \A j \in set : k <= j

\* the keys of _COLUMN_MAP (by position) one of whose patterns matches
Hits(col_lower) ==
    {k \in DOMAIN _COLUMN_MAP :
        \E pat \in _COLUMN_MAP[k] : re_search_word(pat, col_lower)}
\* the loop of lines 34-37 returns at the first key that matches
FirstKey(hits) == IF hits = {} THEN PyNone ELSE PyStr(StdKeys[Min(hits)])
\* the standard key of a header, or None
_fuzzy_match_column(col_name) ==
    IF col_name.t # "str" \/ col_name.v = <<>> THEN PyNone
    ELSE FirstKey(Hits(lower(strip(col_name.v))))

\* rename_map[str(header)] = std_key
Put(rename_map, header, std_key) ==
    [h \in DOMAIN rename_map \cup {header} |->
        IF h = header THEN std_key ELSE rename_map[h]]
\* the rename map, a function from header text to standard key, built left to right:
\* a header is entered when it matches a key no earlier header has taken
RECURSIVE RenameMapFrom(_, _, _)
RenameStep(headers, rename_map, used_std_keys, std_key) ==
    IF std_key # PyNone /\ std_key.v \notin used_std_keys
    THEN RenameMapFrom(Tail(headers), Put(rename_map, Head(headers), std_key.v),
                       used_std_keys \cup {std_key.v})
    ELSE RenameMapFrom(Tail(headers), rename_map, used_std_keys)
RenameMapFrom(headers, rename_map, used_std_keys) ==
    IF headers = <<>> THEN rename_map
    ELSE RenameStep(headers, rename_map, used_std_keys,
                    _fuzzy_match_column(PyStr(Head(headers))))
_get_column_rename_map(headers) == RenameMapFrom(headers, <<>>, {})

\* rename_map.values()
MapValues(rename_map) == {rename_map[h] : h \in DOMAIN rename_map}
\* df.rename(columns=rename_map): every column whose label is a key of the map
rename(columns, rename_map) ==
    [i \in DOMAIN columns |->
        IF columns[i] \in DOMAIN rename_map THEN rename_map[columns[i]] ELSE columns[i]]

(***************************************************************************)
(* Field Normalizer.                                                       *)
(***************************************************************************)
\* the value of a run of digits
RECURSIVE DigitsValue(_)
DigitsValue(ds) ==
    IF ds = <<>> THEN 0
    ELSE 10 * DigitsValue(SubSeq(ds, 1, Len(ds) - 1)) + DigitVal(ds[Len(ds)])
AllDigits(s) == \A i \in DOMAIN s : IsDigit(s[i])

\* float(s) for s made of digits, '.' and '-' only: an optional leading '-', digits
\* with at most one '.', at least one digit; anything else is a ValueError.
\* The value is in hundredths (digits past the second decimal are not carried).
FloatParses(s) ==
    LET body == IF s # <<>> /\ Head(s) = "-" THEN Tail(s) ELSE s
        dots == {i \in DOMAIN body : body[i] = "."}
    IN  /\ \A i \in DOMAIN body : IsDigit(body[i]) \/ body[i] = "."
        /\ Cardinality(dots) <= 1
        /\ \E i \in DOMAIN body : IsDigit(body[i])
FloatValue(s) ==
    LET neg == Head(s) = "-"
        body == IF neg THEN Tail(s) ELSE s
        dots == {i \in DOMAIN body : body[i] = "."}
        dot == IF dots = {} THEN Len(body) + 1 ELSE CHOOSE i \in dots : TRUE
        whole == SubSeq(body, 1, dot - 1)
        frac == SubSeq(body, dot + 1, Len(body))
        f1 == IF Len(frac) >= 1 THEN DigitVal(frac[1]) ELSE 0
        f2 == IF Len(frac) >= 2 THEN DigitVal(frac[2]) ELSE 0
        mag == 100 * DigitsValue(whole) + 10 * f1 + f2
    IN  IF neg THEN 0 - mag ELSE mag

\* lines 75-79 on the cleaned text: float(), 0.0 when it is empty or float() raises
\* ValueError
FloatOrDefault(s_val) ==
    IF s_val # <<>> /\ FloatParses(s_val) THEN FloatValue(s_val) ELSE 0
\* the float of a cell: 0.0 for a null cell, for text that cleans to nothing and
\* for text float() rejects
_normalize_amount(val) ==
    IF notnull(val)
    THEN FloatOrDefault(KeepChars(strip(DropChar(str(val), ",")),
                                  Range(DigitSeq) \cup {".", "-"}))
    ELSE 0

\* pandas' NaT
NaT == [y |-> 0, m |-> 0, d |-> 0]
IsLeap(y) == (y % 4 = 0 /\ y % 100 # 0) \/ y % 400 = 0
DaysIn(y, m) ==
    CASE m \in {4, 6, 9, 11} -> 30
      [] m = 2 -> (IF IsLeap(y) THEN 29 ELSE 28)
      [] OTHER -> 31
Timestamp(y, m, d) ==
    IF y >= 1 /\ m \in 1..12 /\ d >= 1 /\ d <= DaysIn(y, m)
    THEN [y |-> y, m |-> m, d |-> d] ELSE NaT
\* pd.to_datetime(s, errors='coerce') on the two numeric layouts the model's cells
\* use, YYYY-MM-DD and MM/DD/YYYY (month first); every other text is NaT
to_datetime(s) ==
    CASE Len(s) = 10 /\ s[5] = "-" /\ s[8] = "-"
           /\ AllDigits(SubSeq(s, 1, 4) \o SubSeq(s, 6, 7) \o SubSeq(s, 9, 10)) ->
             Timestamp(DigitsValue(SubSeq(s, 1, 4)), DigitsValue(SubSeq(s, 6, 7)),
                       DigitsValue(SubSeq(s, 9, 10)))
      [] Len(s) = 10 /\ s[3] = "/" /\ s[6] = "/"
           /\ AllDigits(SubSeq(s, 1, 2) \o SubSeq(s, 4, 5) \o SubSeq(s, 7, 10)) ->
             Timestamp(DigitsValue(SubSeq(s, 7, 10)), DigitsValue(SubSeq(s, 1, 2)),
                       DigitsValue(SubSeq(s, 4, 5)))
      [] OTHER -> NaT
\* Timestamp.strftime('%Y-%m-%d')
strftime(ts) ==
    << DigitChar(ts.y \div 1000), DigitChar((ts.y \div 100) % 10),
       DigitChar((ts.y \div 10) % 10), DigitChar(ts.y % 10), "-",
       DigitChar(ts.m \div 10), DigitChar(ts.m % 10), "-",
       DigitChar(ts.d \div 10), DigitChar(ts.d % 10) >>

\* strftime on what to_datetime gave: NaT.strftime raises ValueError, caught by
\* line 62, and None is returned
FormatOrNone(ts) == IF ts = NaT THEN PyNone ELSE PyStr(strftime(ts))
\* _normalize_date handing back the text it could not parse
_normalize_date_KeepsText(raw_date) ==
    IF ~notnull(raw_date) THEN PyNone
    ELSE IF to_datetime(str(raw_date)) = NaT THEN PyStr(str(raw_date))
    ELSE PyStr(strftime(to_datetime(str(raw_date))))

\* the date as YYYY-MM-DD, or None
_normalize_date(raw_date) ==
    IF notnull(raw_date) THEN FormatOrNone(to_datetime(str(raw_date))) ELSE PyNone

(***************************************************************************)
(* Table-to-Transactions Converter.  A DataFrame is [columns, rows]: the   *)
(* column labels (text) and the rows, each a tuple of cells as long as     *)
(* columns.  A function that may raise yields [raised, value].             *)
(***************************************************************************)
Returned(v) == [raised |-> "", value |-> v]
Raised(e) == [raised |-> e, value |-> <<>>]

\* the columns labelled `label`
Positions(columns, label) == {i \in DOMAIN columns : columns[i] = label}
\* row.get(label): None without such a column, the cell with one; with several
\* pandas hands back a Series, whose truth value is a ValueError
IsSeries(columns, label) == Cardinality(Positions(columns, label)) > 1
get(columns, row, label) ==
    IF Positions(columns, label) = {} THEN PyNone
    ELSE row[CHOOSE i \in Positions(columns, label) : TRUE]

\* lines 91-93: the optional columns the frame lacks are added, filled with 0.0 ('' for
\* the description)
OptionalColumns == <<<<"d", "e", "b", "i", "t">>, <<"c", "r", "e", "d", "i", "t">>, <<"b", "a", "l", "a", "n", "c", "e">>, <<"d", "e", "s", "c", "r", "i", "p", "t", "i", "o", "n">>>>
RECURSIVE EnsureColumns(_, _)
EnsureColumns(df, cols) ==
    IF cols = <<>> THEN df
    ELSE LET col == Head(cols)
             fill == IF col = <<"d", "e", "s", "c", "r", "i", "p", "t", "i", "o", "n">> THEN PyStr(<<>>) ELSE PyFloat(0)
         IN  IF Positions(df.columns, col) # {} THEN EnsureColumns(df, Tail(cols))
             ELSE EnsureColumns(
                    [columns |-> Append(df.columns, col),
                     rows |-> [r \in DOMAIN df.rows |-> Append(df.rows[r], fill)]],
                    Tail(cols))

\* one row's dict (lines 100-106)
Transaction(columns, row, date_val) ==
    [Date |-> date_val,
     Description |-> IF notnull(get(columns, row, <<"d", "e", "s", "c", "r", "i", "p", "t", "i", "o", "n">>))
                     THEN PyStr(str(get(columns, row, <<"d", "e", "s", "c", "r", "i", "p", "t", "i", "o", "n">>)))
                     ELSE PyStr(<<>>),
     Debit |-> PyFloat(_normalize_amount(get(columns, row, <<"d", "e", "b", "i", "t">>))),
     Credit |-> PyFloat(_normalize_amount(get(columns, row, <<"c", "r", "e", "d", "i", "t">>))),
     Balance |-> PyFloat(_normalize_amount(get(columns, row, <<"b", "a", "l", "a", "n", "c", "e">>)))]

\* the loop of lines 95-106 over the rows left, `result` being the list so far
RECURSIVE ProcessRows(_, _, _)
ProcessRow(columns, rows, result, date_val) ==
    IF date_val = PyNone THEN ProcessRows(columns, Tail(rows), result)
    ELSE IF \E c \in Range(OptionalColumns) : IsSeries(columns, c)
         THEN Raised("ValueError")
         ELSE ProcessRows(columns, Tail(rows),
                          Append(result, Transaction(columns, Head(rows), date_val)))
ProcessRows(columns, rows, result) ==
    IF rows = <<>> THEN Returned(result)
    ELSE IF IsSeries(columns, <<"d", "a", "t", "e">>) THEN Raised("ValueError")
    ELSE ProcessRow(columns, rows, result,
                    _normalize_date(get(columns, Head(rows), <<"d", "a", "t", "e">>)))

ProcessFrame(df) == ProcessRows(df.columns, df.rows, <<>>)
_process_dataframe_to_transactions(df) ==
    ProcessFrame(EnsureColumns(df, OptionalColumns))

(***************************************************************************)
(* Spreadsheet path.                                                       *)
(***************************************************************************)
\* the required keys of line 126, and those no header was renamed to
required == StdKeys
missing(rename_map) ==
    SelectSeq(required, LAMBDA k : k \notin MapValues(rename_map))

\* lines 127-132
RenameAndProcess(df, rename_map) ==
    IF missing(rename_map) # <<>>
    THEN Raised("ValueError: Missing required columns")
    ELSE _process_dataframe_to_transactions(
            [columns |-> rename(df.columns, rename_map), rows |-> df.rows])
\* lines 123-132, on the frame pandas read from the file
extract_bank_statement_columns(df) ==
    RenameAndProcess(df, _get_column_rename_map(df.columns))

(***************************************************************************)
(* Structured PDF strategies.  A table is a tuple of rows of cells, as     *)
(* pd.read_html (strategy A) or page.extract_tables (strategy B) hands it  *)
(* over; its header row is not known.                                      *)
(***************************************************************************)
\* rows df.head() yields (pandas' default n)
HeadRows == 5
\* rows of table_data[:5]
ScanRows == 5

\* the text a cell is matched as: str(h) in A (NaN is 'nan'), '' for None in B
HeaderText(strategy, cell) ==
    IF notnull(cell) THEN str(cell)
    ELSE IF strategy = "unstructured" THEN <<"n", "a", "n">> ELSE <<>>
potential_headers(strategy, row) == [j \in DOMAIN row |-> HeaderText(strategy, row[j])]

\* a good header row has 'date' and one of 'debit', 'credit' (lines 181-182, 227-228)
IsGoodMap(values) ==
    <<"d", "a", "t", "e">> \in values /\ (<<"d", "e", "b", "i", "t">> \in values \/ <<"c", "r", "e", "d", "i", "t">> \in values)
IsHeaderRow(strategy, row) ==
    IsGoodMap(MapValues(_get_column_rename_map(potential_headers(strategy, row))))

\* header_row_index with the scan not cut at the window
header_row_index_WholeTable(strategy, table, window) ==
    IF \A i \in DOMAIN table : ~IsHeaderRow(strategy, table[i]) THEN -1
    ELSE Min({i \in DOMAIN table : IsHeaderRow(strategy, table[i])}) - 1

\* the loop with its break: the index (from 0) of the first good row among the
\* first `window` rows, -1 without one
FirstGood(good) == IF good = {} THEN -1 ELSE Min(good) - 1
header_row_index(strategy, table, window) ==
    FirstGood({i \in 1..(IF Len(table) < window THEN Len(table) ELSE window) :
                 IsHeaderRow(strategy, table[i])})

\* the frame built on the header row found: its cells as labels, renamed, and the
\* rows after it (lines 193-196, 239-244)
FrameOn(headers, rows) ==
    [columns |-> rename(headers, _get_column_rename_map(headers)), rows |-> rows]
HeaderFrame(strategy, table, h) ==
    FrameOn(potential_headers(strategy, table[h + 1]), SubSeq(table, h + 2, Len(table)))

\* what one table came to: [skipped, h, columns, out], out being what the
\* conversion returned or raised
Skipped(h) == [skipped |-> TRUE, h |-> h, columns |-> <<>>, out |-> Returned(<<>>)]
Converted(h, df) ==
    [skipped |-> FALSE, h |-> h, columns |-> df.columns,
     out |-> _process_dataframe_to_transactions(df)]
TableAt(strategy, table, h) ==
    IF h = -1 THEN Skipped(h) ELSE Converted(h, HeaderFrame(strategy, table, h))

\* one table of strategy A (lines 164-200)
UnstructuredTable(table) ==
    TableAt("unstructured", table, header_row_index("unstructured", table, HeadRows))

\* one table of strategy B (lines 216-245)
PdfplumberTable(table_data) ==
    IF Len(table_data) < 2 THEN Skipped(-1)
    ELSE TableAt("pdfplumber", table_data,
                 header_row_index("pdfplumber", table_data, ScanRows))

\* strategy A over the tables left: a table whose processing raises is logged and
\* passed over (lines 198-200)
RECURSIVE UnstructuredTables(_, _)
UnstructuredNext(tables, all_transactions, t) ==
    UnstructuredTables(Tail(tables),
        IF t.out.raised = "" THEN all_transactions \o t.out.value
        ELSE all_transactions)
UnstructuredTables(tables, all_transactions) ==
    IF tables = <<>> THEN all_transactions
    ELSE UnstructuredNext(tables, all_transactions, UnstructuredTable(Head(tables)))

\* partition_pdf raising is caught by the outer handler, which returns [] (203-205)
_extract_with_unstructured(content) ==
    IF content.partition_raises THEN <<>>
    ELSE UnstructuredTables(content.tablesA, <<>>)

\* strategy B over the tables left: nothing catches per table, so a table whose
\* processing raises reaches the outer handler
RECURSIVE PdfplumberTables(_, _)
PdfplumberNext(tables, all_transactions, t) ==
    IF t.out.raised # "" THEN Raised(t.out.raised)
    ELSE PdfplumberTables(Tail(tables), all_transactions \o t.out.value)
PdfplumberTables(tables, all_transactions) ==
    IF tables = <<>> THEN Returned(all_transactions)
    ELSE PdfplumberNext(tables, all_transactions, PdfplumberTable(Head(tables)))

\* the outer handler returns [] (lines 248-250)
ListOrEmpty(r) == IF r.raised # "" THEN <<>> ELSE r.value
_extract_with_pdfplumber(content) ==
    IF content.pdfplumber_raises THEN <<>>
    ELSE ListOrEmpty(PdfplumberTables(content.tablesB, <<>>))

(***************************************************************************)
(* OCR/LLM extractor.  What client.chat.completions.create did is          *)
(* [made, throws, choices]: whether it raised, and the content of each     *)
(* choice of the response: [json, key, rows], json being "invalid" (not    *)
(* JSON), "array" or "object", key saying whether the object has           *)
(* "transactions" and whether it is a list, rows being that list.          *)
(***************************************************************************)
\* lines 135-149 on the content of the first choice
ParseContent(content) ==
    CASE content.json = "invalid" -> Raised("JSONDecodeError")
      [] content.json = "array" -> Raised("AttributeError")
      [] content.key = "absent" -> Returned(<<>>)
      [] content.key = "not_list" -> Returned(<<>>)
      [] OTHER -> Returned(content.rows)
\* the try block, lines 125-149
LlmTry(response) ==
    IF response.throws THEN Raised("APIError")
    ELSE IF response.choices = <<>> THEN Raised("IndexError")
    ELSE ParseContent(response.choices[1])

\* the handler, lines 150-153: its second log line reads
\* response.choices[0].message.content whenever `response` is bound, which
\* raises again on a response without choices
LlmExcept(response) ==
    IF response.throws THEN Returned(<<>>)
    ELSE IF response.choices = <<>> THEN Raised("IndexError")
    ELSE Returned(<<>>)

\* lines 124-153
TryExcept(tried, response) == IF tried.raised = "" THEN tried ELSE LlmExcept(response)
LlmExtract(response) == TryExcept(LlmTry(response), response)

\* upload_file's output keys, lines 57-64
FloatOrZero(x) == IF x = PyNone THEN PyFloat(0) ELSE x
formatted(data) ==
    [i \in DOMAIN data |->
        [date |-> data[i].Date,
         description |-> data[i].Description,
         debit |-> FloatOrZero(data[i].Debit),
         credit |-> FloatOrZero(data[i].Credit),
         balance |-> FloatOrZero(data[i].Balance)]]

(***************************************************************************)
(* Inputs.                                                                 *)
(***************************************************************************)
S(text) == PyStr(text)

\* header rows and the rows under them, cell by cell
HeaderFull == <<S(<<"D", "a", "t", "e">>), S(<<"D", "e", "s", "c">>), S(<<"D", "e", "b", "i", "t">>), S(<<"C", "r", "e", "d", "i", "t">>), S(<<"B", "a", "l", "a", "n", "c", "e">>)>>
RowCoffee == <<S(<<"2", "0", "2", "4", "-", "0", "3", "-", "0", "1">>), S(<<"C", "o", "f", "f", "e", "e", " ", "S", "h", "o", "p">>), S(<<"4", ".", "5", "0">>), S(<<>>), S(<<"1", "2", "0", ".", "0", "0">>)>>
RowRent == <<S(<<"0", "3", "/", "0", "5", "/", "2", "0", "2", "4">>), S(<<"R", "e", "n", "t">>), S(<<"1", ",", "2", "0", "0", ".", "0", "0">>), PyNone, S(<<"$", " ", "-", "1", ",", "0", "8", "0", ".", "0", "0">>)>>
RowFooter == <<S(<<"g", "a", "r", "b", "a", "g", "e">>), S(<<"P", "a", "g", "e", " ", "1", " ", "o", "f", " ", "2">>), S(<<"N", "/", "A">>), S(<<>>), S(<<>>)>>
RowBanner == <<S(<<"S", "T", "A", "T", "E", "M", "E", "N", "T">>), S(<<>>), PyNone, S(<<>>), S(<<>>)>>
HeaderTwoDates == <<S(<<"D", "a", "t", "e">>), S(<<"D", "a", "t", "e">>), S(<<"D", "e", "b", "i", "t">>), S(<<"C", "r", "e", "d", "i", "t">>), S(<<"B", "a", "l", "a", "n", "c", "e">>)>>
RowTwoDates == <<S(<<"2", "0", "2", "4", "-", "0", "3", "-", "0", "1">>), S(<<"2", "0", "2", "4", "-", "0", "3", "-", "0", "2">>), S(<<"4", ".", "5", "0">>), S(<<>>), S(<<"1", "2", "0", ".", "0", "0">>)>>

TableGood == <<HeaderFull, RowCoffee, RowRent>>
TableBanner == <<RowBanner, HeaderFull, RowCoffee>>
TableNoHeader == <<RowBanner, RowCoffee>>
TableFooterOnly == <<HeaderFull, RowFooter>>
TableTwoDates == <<HeaderTwoDates, RowTwoDates>>
\* the tables one detector finds in a document
SampleDocs ==
    {<<>>, <<TableGood>>, <<TableBanner>>, <<TableNoHeader>>, <<TableFooterOnly>>,
     <<TableTwoDates>>, <<TableGood, TableBanner>>, <<TableGood, TableTwoDates>>,
     <<TableTwoDates, TableGood>>, <<TableNoHeader, TableGood>>}

\* what the model returns under "transactions"
LlmRowFull ==
    [Date |-> S(<<"5", " ", "A", "p", "r">>), Description |-> S(<<"e", "-", "T", "r", "a", "n", "s", "f", "e", "r">>),
     Debit |-> PyFloat(12500), Credit |-> PyNone, Balance |-> PyFloat(563000)]
LlmRowNoDate ==
    [Date |-> PyNone, Description |-> S(<<"O", "n", "l", "i", "n", "e", " ", "B", "a", "n", "k", "i", "n", "g", " ", "p", "a", "y", "m", "e", "n", "t">>),
     Debit |-> PyFloat(50000), Credit |-> PyNone, Balance |-> PyNone]
Content(json, key, rows) == [json |-> json, key |-> key, rows |-> rows]
Response(throws, choices) == [made |-> TRUE, throws |-> throws, choices |-> choices]
LlmResponses ==
    {Response(TRUE, <<>>), Response(FALSE, <<>>)}
    \cup {Response(FALSE, <<c>>) :
            c \in {Content("invalid", "absent", <<>>), Content("array", "absent", <<>>),
                   Content("object", "absent", <<>>), Content("object", "not_list", <<>>)}}
    \cup {Response(FALSE, <<Content("object", "list", rows)>>) :
            rows \in {<<>>, <<LlmRowFull>>, <<LlmRowNoDate>>, <<LlmRowFull, LlmRowNoDate>>}}

\* spreadsheets as pandas reads them: distinct column labels, NaN for an empty cell
SheetHeaders ==
    {<<<<"T", "x", "n", " ", "D", "a", "t", "e">>, <<"N", "a", "r", "r", "a", "t", "i", "o", "n">>, <<"W", "i", "t", "h", "d", "r", "a", "w", "a", "l">>, <<"D", "e", "p", "o", "s", "i", "t">>, <<"C", "l", "o", "s", "i", "n", "g", " ", "B", "a", "l", "a", "n", "c", "e">>>>,
     <<<<"D", "a", "t", "e">>, <<"D", "e", "s", "c", "r", "i", "p", "t", "i", "o", "n">>, <<"D", "e", "b", "i", "t">>, <<"C", "r", "e", "d", "i", "t">>>>,
     <<<<"D", "a", "t", "e">>, <<"D", "e", "s", "c", "r", "i", "p", "t", "i", "o", "n">>, <<"D", "e", "b", "i", "t">>>>,
     <<<<"D", "a", "t", "e">>, <<"D", "e", "s", "c", "r", "i", "p", "t", "i", "o", "n">>, <<"D", "e", "p", "o", "s", "i", "t", "s", " ", "(", "$", ")">>>>,
     <<<<"D", "a", "t", "e">>, <<"D", "e", "s", "c", "r", "i", "p", "t", "i", "o", "n">>, <<"B", "a", "l", "a", "n", "c", "e">>>>,
     <<<<"D", "e", "t", "a", "i", "l", "s">>, <<"D", "e", "b", "i", "t">>, <<"C", "r", "e", "d", "i", "t">>, <<"B", "a", "l", "a", "n", "c", "e">>>>,
     <<<<"D", "a", "t", "e">>, <<"D", "e", "b", "i", "t">>, <<"C", "r", "e", "d", "i", "t">>, <<"B", "a", "l", "a", "n", "c", "e">>>>,
     <<<<"D", "a", "t", "e">>, <<"D", "e", "s", "c", "r", "i", "p", "t", "i", "o", "n">>, <<"W", "i", "t", "h", "d", "r", "a", "w", "a", "l">>, <<"d", "e", "b", "i", "t">>, <<"C", "r", "e", "d", "i", "t">>, <<"B", "a", "l", "a", "n", "c", "e">>>>,
     <<<<"R", "e", "f">>, <<"D", "a", "t", "e">>, <<"P", "a", "r", "t", "i", "c", "u", "l", "a", "r", "s">>, <<"D", "R">>, <<"C", "R">>, <<"A", "v", "a", "i", "l", "a", "b", "l", "e", " ", "B", "a", "l", "a", "n", "c", "e">>>>}
\* a row under given headers: each cell chosen by what its column is for
SheetCell(header, variant) ==
    LET key == _fuzzy_match_column(PyStr(header))
    IN  CASE key = PyStr(<<"d", "a", "t", "e">>) ->
               (IF variant = 1 THEN S(<<"2", "0", "2", "4", "-", "0", "3", "-", "0", "1">>) ELSE IF variant = 2 THEN PyNone
                ELSE S(<<"0", "3", "/", "0", "5", "/", "2", "0", "2", "4">>))
          [] key = PyStr(<<"d", "e", "s", "c", "r", "i", "p", "t", "i", "o", "n">>) ->
               (IF variant = 1 THEN S(<<"C", "o", "f", "f", "e", "e", " ", "S", "h", "o", "p">>) ELSE S(<<"T", "o", "t", "a", "l">>))
          [] key = PyStr(<<"d", "e", "b", "i", "t">>) ->
               (IF variant = 1 THEN S(<<"4", ".", "5", "0">>) ELSE IF variant = 2 THEN S(<<"N", "/", "A">>)
                ELSE S(<<"-", "5", "0", ".", "0", "0">>))
          [] key = PyStr(<<"c", "r", "e", "d", "i", "t">>) ->
               (IF variant = 1 THEN PyNone ELSE S(<<"1", ",", "2", "3", "4", ".", "5", "6">>))
          [] key = PyStr(<<"b", "a", "l", "a", "n", "c", "e">>) ->
               (IF variant = 1 THEN S(<<"1", "2", "0", ".", "0", "0">>) ELSE S(<<"$", " ", "-", "1", ",", "0", "8", "0", ".", "0", "0">>))
          [] OTHER -> S(<<"x">>)
SheetRow(headers, variant) == [j \in DOMAIN headers |-> SheetCell(headers[j], variant)]
SheetRowLists == {<<>>, <<1>>, <<1, 2>>, <<3, 1>>, <<2, 3, 1>>}
SampleSheets ==
    {[columns |-> h, rows |-> [r \in DOMAIN vs |-> SheetRow(h, vs[r])]] :
        h \in SheetHeaders, vs \in SheetRowLists}

(***************************************************************************)
(* State.                                                                  *)
(***************************************************************************)
VARIABLES
    op,         \* the operation under way
    pc,         \* where it stands
    input,      \* what it was called with
    calls,      \* the functions and collaborators invoked so far, in order
    resA,       \* what strategy A returned, once run
    resB,       \* what strategy B returned, once run
    ocr,        \* how the OCR call inside extract_transactions_with_openai went
    llm,        \* the response of the LLM call, once made
    extracted,  \* how extract_transactions_with_openai ended: [raised, value]
    df,         \* the frame under conversion
    tab,        \* what one table of a structured strategy came to
    data,       \* upload_file's `data`
    out         \* how the operation ended: [raised, value]
vars == <<op, pc, input, calls, resA, resB, ocr, llm, extracted, df, tab, data, out>>

NotRun == [made |-> FALSE, throws |-> FALSE, choices |-> <<>>]
NoFrame == [columns |-> <<>>, rows |-> <<>>]
NoTable == [skipped |-> TRUE, h |-> -1, columns |-> <<>>, out |-> Returned(<<>>)]
Pending == [raised |-> "pending", value |-> <<>>]
Extensions == {".csv", ".xlsx", ".pdf", ".txt"}
ALLOWED_EXTENSIONS == {".csv", ".xls", ".xlsx", ".pdf"}

\* a request to POST /api/upload: the extension, whether the body exceeds
\* MAX_FILE_SIZE, and whether the module found OPENAI_API_KEY (lines 12-16)
UploadInputs ==
    [ext : Extensions, oversize : BOOLEAN, client : BOOLEAN]
\* a call of extract_transactions_from_pdf: whether tesseract is on the PATH, the
\* tables each detector finds, and whether the detector itself raises
PdfInputs ==
    [tesseract : BOOLEAN, partition_raises : BOOLEAN, pdfplumber_raises : BOOLEAN,
     tablesA : SampleDocs, tablesB : SampleDocs]

Idle ==
    /\ pc = "start"
    /\ calls = <<>>
    /\ resA = <<>>
    /\ resB = <<>>
    /\ ocr = "none"
    /\ llm = NotRun
    /\ extracted = Pending
    /\ df = NoFrame
    /\ tab = NoTable
    /\ data = <<>>
    /\ out = Pending

Init ==
    /\ \/ op = "upload_file" /\ input \in UploadInputs
       \/ op = "extract_transactions_from_pdf" /\ input \in PdfInputs
    /\ Idle

\* the HTTPException upload_file answers with
Http400(detail) == [raised |-> "HTTP 400", value |-> detail]
\* line 52
FailedToParse(e) == Http400(<<"Failed to parse file", e>>)

(***************************************************************************)
(* upload_file.                                                            *)
(***************************************************************************)
\* lines 25-37: the extension and the size are checked, the file saved
Validate ==
    /\ op = "upload_file" /\ pc = "start"
    /\ IF input.ext \notin ALLOWED_EXTENSIONS
       THEN pc' = "done" /\ out' = Http400(<<"Invalid file extension.">>)
       ELSE IF input.oversize
       THEN pc' = "done" /\ out' = Http400(<<"File size exceeds 10 MB.">>)
       ELSE pc' = (IF input.ext = ".pdf" THEN "ocr" ELSE "sheet") /\ out' = out
    /\ UNCHANGED <<op, input, calls, resA, resB, ocr, llm, extracted, df, tab, data>>

\* line 43 into extract_transactions_with_openai, lines 46-60: PaddleOCR reads the
\* page; an exception there leaves the function and is answered by line 52
OcrForExtraction ==
    /\ op = "upload_file" /\ pc = "ocr"
    /\ calls' = calls \o <<"extract_transactions_with_openai", "paddleocr">>
    /\ \E o \in {"raises", "empty", "text"} :
          /\ ocr' = o
          /\ CASE o = "raises" ->
                    /\ extracted' = Raised("OCRError")
                    /\ pc' = "done" /\ out' = FailedToParse("OCRError")
               [] o = "empty" \/ ~input.client ->
                    /\ extracted' = Returned(<<>>)
                    /\ pc' = "ocr_text" /\ out' = out
               [] OTHER -> extracted' = extracted /\ pc' = "llm" /\ out' = out
    /\ UNCHANGED <<op, input, resA, resB, llm, df, tab, data>>

\* lines 124-153, then back in upload_file (data = ..., or line 52)
LlmCall ==
    /\ op = "upload_file" /\ pc = "llm"
    /\ calls' = Append(calls, "openai")
    /\ \E response \in LlmResponses :
          /\ llm' = response
          /\ \E r \in {LlmExtract(response)} :
                /\ extracted' = r
                /\ IF r.raised = ""
                   THEN data' = r.value /\ pc' = "ocr_text" /\ out' = out
                   ELSE data' = data /\ pc' = "done" /\ out' = FailedToParse(r.raised)
    /\ UNCHANGED <<op, input, resA, resB, ocr, df, tab>>

\* lines 45-46: the page is read again for the text returned with the result
OcrForInspection ==
    /\ op = "upload_file" /\ pc = "ocr_text"
    /\ calls' = Append(calls, "paddleocr")
    /\ \E o \in {"raises", "text"} :
          IF o = "raises"
          THEN pc' = "done" /\ out' = FailedToParse("OCRError")
          ELSE pc' = "format" /\ out' = out
    /\ UNCHANGED <<op, input, resA, resB, ocr, llm, extracted, df, tab, data>>

\* lines 48-52: the spreadsheet is read and converted
ReadSheet ==
    /\ op = "upload_file" /\ pc = "sheet"
    /\ calls' = Append(calls, "extract_bank_statement_columns")
    /\ \E frame \in SampleSheets :
          /\ df' = frame
          /\ \E r \in {extract_bank_statement_columns(frame)} :
                IF r.raised = ""
                THEN data' = r.value /\ pc' = "format" /\ out' = out
                ELSE data' = data /\ pc' = "done" /\ out' = FailedToParse(r.raised)
    /\ UNCHANGED <<op, input, resA, resB, ocr, llm, extracted, tab>>

\* lines 55-74
Format ==
    /\ op = "upload_file" /\ pc = "format"
    /\ pc' = "done"
    /\ out' = Returned(formatted(data))
    /\ UNCHANGED <<op, input, calls, resA, resB, ocr, llm, extracted, df, tab, data>>

(***************************************************************************)
(* extract_transactions_from_pdf.                                          *)
(***************************************************************************)
\* line 261: _check_tesseract_is_installed raises RuntimeError, which nothing here
\* catches
CheckTesseract ==
    /\ op = "extract_transactions_from_pdf" /\ pc = "start"
    /\ IF input.tesseract
       THEN pc' = "A" /\ out' = out
       ELSE pc' = "done" /\ out' = Raised("RuntimeError")
    /\ UNCHANGED <<op, input, calls, resA, resB, ocr, llm, extracted, df, tab, data>>

\* RunUnstructured without the early return of lines 267-269
RunUnstructured_FallsThrough ==
    /\ op = "extract_transactions_from_pdf" /\ pc = "A"
    /\ calls' = Append(calls, "unstructured")
    /\ resA' = _extract_with_unstructured(input)
    /\ pc' = "B" /\ out' = out
    /\ UNCHANGED <<op, input, resB, ocr, llm, extracted, df, tab, data>>

\* lines 266-269
RunUnstructured ==
    /\ op = "extract_transactions_from_pdf" /\ pc = "A"
    /\ calls' = Append(calls, "unstructured")
    /\ resA' = _extract_with_unstructured(input)
    /\ IF resA' # <<>>
       THEN pc' = "done" /\ out' = Returned(resA')
       ELSE pc' = "B" /\ out' = out
    /\ UNCHANGED <<op, input, resB, ocr, llm, extracted, df, tab, data>>

\* lines 273-279
RunPdfplumber ==
    /\ op = "extract_transactions_from_pdf" /\ pc = "B"
    /\ calls' = Append(calls, "pdfplumber")
    /\ resB' = _extract_with_pdfplumber(input)
    /\ pc' = "done"
    /\ out' = IF resB' # <<>> THEN Returned(resB') ELSE Returned(<<>>)
    /\ UNCHANGED <<op, input, resA, ocr, llm, extracted, df, tab, data>>

Next ==
    \/ Validate
    \/ OcrForExtraction
    \/ LlmCall
    \/ OcrForInspection
    \/ ReadSheet
    \/ Format
    \/ CheckTesseract
    \/ RunUnstructured
    \/ RunPdfplumber

Spec == Init /\ [][Next]_vars

(***************************************************************************)
(* Properties of the requests (Spec).                                      *)
(***************************************************************************)
Invoked(f) == f \in Range(calls)
Ended == pc = "done"

\* C1: in extract_transactions_from_pdf, a non-empty list from strategy A is the
\* result and ends the call with neither strategy B nor the OCR/LLM extractor
\* invoked; an empty list from A and a non-empty one from B makes B's list the
\* result, the OCR/LLM extractor not invoked.
C1_FirstNonEmptyWins ==
    op = "extract_transactions_from_pdf" =>
        /\ resA # <<>> =>
              /\ Ended /\ out = Returned(resA)
              /\ calls = <<"unstructured">>
        /\ resB # <<>> =>
              /\ resA = <<>>
              /\ Ended /\ out = Returned(resB)
              /\ calls = <<"unstructured", "pdfplumber">>
C1_Witness ==
    /\ op = "extract_transactions_from_pdf"
    /\ resA # <<>> /\ Ended /\ out = Returned(resA)
    /\ input.tablesB # <<>>

\* C2: the OCR/LLM extractor is invoked exactly when strategies A and B were both
\* run before it and both returned an empty list.
C2_LlmIffBothEmpty ==
    /\ Invoked("extract_transactions_with_openai") =>
          /\ Len(calls) >= 3
          /\ SubSeq(calls, 1, 3)
               = <<"unstructured", "pdfplumber", "extract_transactions_with_openai">>
          /\ resA = <<>> /\ resB = <<>>
    /\ (Ended /\ Invoked("pdfplumber") /\ resA = <<>> /\ resB = <<>>) =>
          Invoked("extract_transactions_with_openai")

\* the transactions of a finished operation and their dates
FinalTransactions == IF Ended /\ out.raised = "" THEN out.value ELSE <<>>
FinalDate(t) == IF op = "upload_file" THEN t.date ELSE t.Date

\* C3: every transaction in the final output has a non-null date.
C3_FinalDatesNonNull ==
    \A i \in DOMAIN FinalTransactions : FinalDate(FinalTransactions[i]) # PyNone

\* C4: whatever the LLM call does (no client, the call throws, no choices, content
\* that is not JSON, a top level that is not an object, "transactions" not a list),
\* extract_transactions_with_openai returns an empty list and raises nothing.
LlmFailed ==
    /\ llm.made
    /\ \/ llm.throws
       \/ llm.choices = <<>>
       \/ \E i \in DOMAIN llm.choices :
             \/ llm.choices[i].json \in {"invalid", "array"}
             \/ llm.choices[i].key = "not_list"
C4_LlmFailureGivesEmptyList ==
    /\ LlmFailed => extracted = Returned(<<>>)
    /\ (ocr = "text" /\ ~input.client) => extracted = Returned(<<>>)

\* C5: an OCR engine that is missing or raises costs only that strategy's
\* transactions: the operation ends with a list, and no exception leaves it.
C5_OcrFailureAbsorbed ==
    /\ (op = "extract_transactions_from_pdf" /\ ~input.tesseract /\ Ended) =>
          out.raised = ""
    /\ (op = "upload_file" /\ ocr = "raises") =>
          /\ extracted = Returned(<<>>)
          /\ Ended => out.raised = ""

\* the standard keys the headers of the sheet read were matched to
SheetKeys == MapValues(_get_column_rename_map(df.columns))
SheetRead == op = "upload_file" /\ Invoked("extract_bank_statement_columns")
SheetRejected ==
    Ended /\ out = FailedToParse("ValueError: Missing required columns")
LacksRequired ==
    \/ <<"d", "a", "t", "e">> \notin SheetKeys
    \/ <<"d", "e", "s", "c", "r", "i", "p", "t", "i", "o", "n">> \notin SheetKeys
    \/ (<<"d", "e", "b", "i", "t">> \notin SheetKeys /\ <<"c", "r", "e", "d", "i", "t">> \notin SheetKeys)
AbsentAreZero(t) ==
    /\ <<"d", "e", "b", "i", "t">> \notin SheetKeys => t.Debit = PyFloat(0)
    /\ <<"c", "r", "e", "d", "i", "t">> \notin SheetKeys => t.Credit = PyFloat(0)
    /\ <<"b", "a", "l", "a", "n", "c", "e">> \notin SheetKeys => t.Balance = PyFloat(0)

\* C6: a sheet is rejected for missing required columns exactly when its headers
\* match no Date, or no Description, or neither Debit nor Credit; any other sheet
\* is accepted, the columns it lacks being 0.0 in every transaction.
C6_RejectedIffLacksRequired ==
    SheetRead =>
        /\ SheetRejected <=> LacksRequired
        /\ ~LacksRequired => \A i \in DOMAIN data : AbsentAreZero(data[i])

\* what a table gives on its own: its transactions when it converts, nothing when
\* it has no header in the window or its conversion raises
Contribution(t) == IF t.out.raised = "" THEN t.out.value ELSE <<>>
RECURSIVE ContributionsA(_)
ContributionsA(tables) ==
    IF tables = <<>> THEN <<>>
    ELSE Contribution(UnstructuredTable(Head(tables))) \o ContributionsA(Tail(tables))
RECURSIVE ContributionsB(_)
ContributionsB(tables) ==
    IF tables = <<>> THEN <<>>
    ELSE Contribution(PdfplumberTable(Head(tables))) \o ContributionsB(Tail(tables))

\* C12: the list a structured strategy returns is the concatenation, in table
\* order, of what each table of the document gives on its own, for strategy A and
\* for strategy B: a table without a header or whose conversion fails removes
\* nothing obtained from the other tables.
C12_TablesIndependent ==
    op = "extract_transactions_from_pdf" =>
        /\ (Invoked("unstructured") /\ ~input.partition_raises) =>
              resA = ContributionsA(input.tablesA)
        /\ (Invoked("pdfplumber") /\ ~input.pdfplumber_raises) =>
              resB = ContributionsB(input.tablesB)

\* upload_file has made its second call of extract_text_from_pdf_with_paddleocr
\* (line 46), the first being the one inside extract_transactions_with_openai
InspectionCalled ==
    op = "upload_file" /\ Len(SelectSeq(calls, LAMBDA f : f = "paddleocr")) = 2

\* C13: once the transactions of a PDF are extracted, whatever the OCR call made
\* for the inspection text does, raising included, the request ends in success
\* with those transactions.
C13_InspectionTextOptional ==
    (InspectionCalled /\ Ended) =>
        /\ out.raised = ""
        /\ Len(out.value) = Len(data)
        /\ \A i \in DOMAIN data :
              /\ out.value[i].date = data[i].Date
              /\ out.value[i].description = data[i].Description

(***************************************************************************)
(* One table through a structured strategy (SpecTable).  The table is      *)
(* either a column of rows of known kinds, at most MaxRows of them, or a   *)
(* header row over at most MaxCols columns followed by two data rows.      *)
(***************************************************************************)
MaxRows == 6
MaxCols == 3

HeaderNoAmounts == <<S(<<"D", "a", "t", "e">>), S(<<"D", "e", "s", "c">>), S(<<"R", "e", "f">>), S(<<>>), S(<<"B", "a", "l", "a", "n", "c", "e">>)>>
\* the kinds of row: 1 a banner, 2 a header, 3 a header without Debit and Credit,
\* 4 a transaction
KindRows == <<RowBanner, HeaderFull, HeaderNoAmounts, RowCoffee>>
HeaderTexts == {<<"D", "a", "t", "e">>, <<"T", "x", "n", " ", "D", "a", "t", "e">>, <<"D", "e", "b", "i", "t">>, <<"W", "i", "t", "h", "d", "r", "a", "w", "a", "l">>, <<"d", "e", "b", "i", "t">>, <<"D", "e", "s", "c">>}

RECURSIVE SeqsUpTo(_, _)
SeqsUpTo(set, n) ==
    IF n = 0 THEN {<<>>}
    ELSE SeqsUpTo(set, n - 1)
         \cup {Append(q, x) : q \in {q \in SeqsUpTo(set, n - 1) : Len(q) = n - 1}, x \in set}

TableInputs ==
    {[kinds |-> ks, headers |-> <<>>] : ks \in SeqsUpTo(DOMAIN KindRows, MaxRows)}
    \cup {[kinds |-> <<>>, headers |-> hs] : hs \in SeqsUpTo(HeaderTexts, MaxCols) \ {<<>>}}
TableOf(in) ==
    IF in.headers = <<>> THEN [i \in DOMAIN in.kinds |-> KindRows[in.kinds[i]]]
    ELSE << [j \in DOMAIN in.headers |-> S(in.headers[j])],
            SheetRow(in.headers, 1), SheetRow(in.headers, 3) >>

InitTable ==
    /\ op \in {"unstructured", "pdfplumber"}
    /\ input \in TableInputs
    /\ Idle

\* the body of the loop over tables in _extract_with_unstructured
UnstructuredOneTable ==
    /\ op = "unstructured" /\ pc = "start"
    /\ calls' = Append(calls, "unstructured")
    /\ tab' = UnstructuredTable(TableOf(input))
    /\ pc' = "done"
    /\ UNCHANGED <<op, input, resA, resB, ocr, llm, extracted, df, data, out>>

\* the body of the loop over tables in _extract_with_pdfplumber
PdfplumberOneTable ==
    /\ op = "pdfplumber" /\ pc = "start"
    /\ calls' = Append(calls, "pdfplumber")
    /\ tab' = PdfplumberTable(TableOf(input))
    /\ pc' = "done"
    /\ UNCHANGED <<op, input, resA, resB, ocr, llm, extracted, df, data, out>>

NextTable == UnstructuredOneTable \/ PdfplumberOneTable
SpecTable == InitTable /\ [][NextTable]_vars

\* what the claim expects of a column of rows of known kinds: the first header
\* among its first five rows (from 0; -1 without one), and one transaction for
\* each transaction row after it
FirstHeader(kinds) ==
    IF \A i \in DOMAIN kinds : i > 5 \/ kinds[i] # 2 THEN -1
    ELSE Min({i \in DOMAIN kinds : i <= 5 /\ kinds[i] = 2}) - 1
TxnCoffee ==
    [Date |-> S(<<"2", "0", "2", "4", "-", "0", "3", "-", "0", "1">>), Description |-> S(<<"C", "o", "f", "f", "e", "e", " ", "S", "h", "o", "p">>),
     Debit |-> PyFloat(450), Credit |-> PyFloat(0), Balance |-> PyFloat(12000)]
RowsAfter(kinds, h) ==
    IF h = -1 THEN <<>>
    ELSE [i \in DOMAIN SelectSeq(SubSeq(kinds, h + 2, Len(kinds)), LAMBDA k : k = 4)
            |-> TxnCoffee]
OfKinds == input.headers = <<>> /\ pc = "done"

\* C7 as stated: for every table, the header chosen is the first of the first five
\* rows that has Date and one of Debit, Credit; without one the table is not found
\* and gives nothing; only the rows after the header are converted.
C7_HeaderIsFirstGoodRow ==
    OfKinds =>
        /\ tab.h = FirstHeader(input.kinds)
        /\ tab.skipped <=> tab.h = -1
        /\ tab.out = Returned(RowsAfter(input.kinds, FirstHeader(input.kinds)))

\* C7 amended: the same for every table strategy A is given and every table of at
\* least two rows strategy B is given; strategy B passes over a shorter table
\* without looking for a header, and it gives nothing.
C7_HeaderIsFirstGoodRow_Amended ==
    OfKinds =>
        IF op = "pdfplumber" /\ Len(input.kinds) < 2
        THEN tab.skipped /\ tab.out = Returned(<<>>)
        ELSE /\ tab.h = FirstHeader(input.kinds)
             /\ tab.skipped <=> tab.h = -1
             /\ tab.out = Returned(RowsAfter(input.kinds, FirstHeader(input.kinds)))
\* two banners, the header at row 2, then transactions
C7_Witness ==
    /\ OfKinds /\ Len(input.kinds) >= 4
    /\ SubSeq(input.kinds, 1, 4) = <<1, 1, 2, 4>>
    /\ tab.h = 2 /\ Len(tab.out.value) >= 1

\* the columns a standard key labels once the header map is applied, and the
\* leftmost column whose header matches it
Labelled(key) == Positions(tab.columns, key)
Matching(key) ==
    {j \in DOMAIN input.headers : _fuzzy_match_column(S(input.headers[j])) = PyStr(key)}

\* C8: the header map applied to the table is injective: each standard key labels
\* at most one column, the leftmost whose header matches it.
C8_HeaderMapInjective ==
    (input.headers # <<>> /\ pc = "done" /\ ~tab.skipped) =>
        \A k \in DOMAIN StdKeys :
            /\ Cardinality(Labelled(StdKeys[k])) <= 1
            /\ Matching(StdKeys[k]) # {} =>
                  Labelled(StdKeys[k]) = {Min(Matching(StdKeys[k]))}

(***************************************************************************)
(* The converter on a frame keyed by standard names (SpecConvert): the     *)
(* columns are one of KeyedColumns, the rows at most MaxFrameRows of the   *)
(* row variants below.                                                     *)
(***************************************************************************)
MaxFrameRows == 3

KeyedColumns ==
    {<<<<"d", "a", "t", "e">>, <<"d", "e", "s", "c", "r", "i", "p", "t", "i", "o", "n">>, <<"d", "e", "b", "i", "t">>, <<"c", "r", "e", "d", "i", "t">>, <<"b", "a", "l", "a", "n", "c", "e">>>>,
     <<<<"d", "a", "t", "e">>, <<"d", "e", "b", "i", "t">>>>,
     <<<<"b", "a", "l", "a", "n", "c", "e">>, <<"d", "a", "t", "e">>, <<"c", "r", "e", "d", "i", "t">>>>,
     <<<<"d", "e", "s", "c", "r", "i", "p", "t", "i", "o", "n">>, <<"d", "e", "b", "i", "t">>, <<"c", "r", "e", "d", "i", "t">>>>,
     <<<<"d", "a", "t", "e">>, <<"R", "e", "f">>, <<"d", "e", "s", "c", "r", "i", "p", "t", "i", "o", "n">>>>}
\* the cells of each row variant: date, description, debit, credit, balance
VariantCells ==
    << <<S(<<"2", "0", "2", "4", "-", "0", "3", "-", "0", "1">>), S(<<"C", "o", "f", "f", "e", "e", " ", "S", "h", "o", "p">>), S(<<"4", ".", "5", "0">>), S(<<>>), S(<<"1", "2", "0", ".", "0", "0">>)>>,
       <<S(<<"0", "3", "/", "0", "5", "/", "2", "0", "2", "4">>), S(<<"R", "e", "n", "t">>), S(<<"1", ",", "2", "3", "4", ".", "5", "6">>), PyNone, S(<<"$", " ", "-", "1", ",", "0", "8", "0", ".", "0", "0">>)>>,
       <<S(<<"g", "a", "r", "b", "a", "g", "e">>), S(<<"P", "a", "g", "e", " ", "1", " ", "o", "f", " ", "2">>), S(<<"N", "/", "A">>), S(<<>>), S(<<>>)>>,
       <<PyNone, PyNone, PyNone, PyNone, PyNone>>,
       <<S(<<"2", "0", "2", "4", "-", "0", "2", "-", "3", "0">>), S(<<"x">>), S(<<"1", "-", "2">>), S(<<".">>), S(<<"-">>)>>,
       <<S(<<"2", "0", "2", "4", "-", "0", "3", "-", "0", "2">>), PyNone, S(<<"-", "5", "0", ".", "0", "0">>), S(<<"N", "/", "A">>), S(<<"1", ".", "2", ".", "3">>)>>,
       <<S(<<>>), S(<<"T", "o", "t", "a", "l">>), S(<<"5">>), S(<<"6">>), S(<<"7">>)>>,
       <<S(<<"2", "0", "2", "4", "-", "1", "2", "-", "3", "1">>), S(<<>>), S(<<"a", "b", "c">>), S(<<" ", "1", "2", " ">>), S(<<"0", ".", "5">>)>> >>
KeyIndex(label) ==
    IF label \in Range(StdKeys) THEN CHOOSE k \in DOMAIN StdKeys : StdKeys[k] = label
    ELSE 0
VariantCell(v, label) ==
    IF KeyIndex(label) = 0 THEN S(<<"x">>) ELSE VariantCells[v][KeyIndex(label)]
FrameOf(in) ==
    [columns |-> in.columns,
     rows |-> [r \in DOMAIN in.variants |->
                 [j \in DOMAIN in.columns |-> VariantCell(in.variants[r], in.columns[j])]]]
FrameInputs ==
    {[columns |-> c, variants |-> vs] :
        c \in KeyedColumns, vs \in SeqsUpTo(DOMAIN VariantCells, MaxFrameRows)}

InitConvert ==
    /\ op = "_process_dataframe_to_transactions"
    /\ input \in FrameInputs
    /\ Idle

\* lines 83-108
Convert ==
    /\ op = "_process_dataframe_to_transactions" /\ pc = "start"
    /\ df' = FrameOf(input)
    /\ out' = _process_dataframe_to_transactions(FrameOf(input))
    /\ pc' = "done"
    /\ UNCHANGED <<op, input, calls, resA, resB, ocr, llm, extracted, tab, data>>

NextConvert == Convert
SpecConvert == InitConvert /\ [][NextConvert]_vars

\* what the claim expects of each row variant: its normalized date (None: the row
\* is dropped) and its description and amounts, in hundredths
ExpectedDate ==
    << S(<<"2", "0", "2", "4", "-", "0", "3", "-", "0", "1">>), S(<<"2", "0", "2", "4", "-", "0", "3", "-", "0", "5">>), PyNone, PyNone, PyNone, S(<<"2", "0", "2", "4", "-", "0", "3", "-", "0", "2">>),
       PyNone, S(<<"2", "0", "2", "4", "-", "1", "2", "-", "3", "1">>) >>
ExpectedDescription ==
    << <<"C", "o", "f", "f", "e", "e", " ", "S", "h", "o", "p">>, <<"R", "e", "n", "t">>, <<"P", "a", "g", "e", " ", "1", " ", "o", "f", " ", "2">>, <<>>, <<"x">>, <<>>, <<"T", "o", "t", "a", "l">>, <<>> >>
ExpectedAmounts ==
    << <<450, 0, 12000>>, <<123456, 0, -108000>>, <<0, 0, 0>>, <<0, 0, 0>>,
       <<0, 0, 0>>, <<-5000, 0, 0>>, <<500, 600, 700>>, <<0, 1200, 50>> >>
Has(label) == label \in Range(input.columns)
ExpectedTransaction(v) ==
    [Date |-> ExpectedDate[v],
     Description |-> PyStr(IF Has(<<"d", "e", "s", "c", "r", "i", "p", "t", "i", "o", "n">>) THEN ExpectedDescription[v] ELSE <<>>),
     Debit |-> PyFloat(IF Has(<<"d", "e", "b", "i", "t">>) THEN ExpectedAmounts[v][1] ELSE 0),
     Credit |-> PyFloat(IF Has(<<"c", "r", "e", "d", "i", "t">>) THEN ExpectedAmounts[v][2] ELSE 0),
     Balance |-> PyFloat(IF Has(<<"b", "a", "l", "a", "n", "c", "e">>) THEN ExpectedAmounts[v][3] ELSE 0)]
Kept ==
    IF Has(<<"d", "a", "t", "e">>) THEN SelectSeq(input.variants, LAMBDA v : ExpectedDate[v] # PyNone)
    ELSE <<>>

\* C9: the converter returns, in row order, one transaction for each row whose
\* date normalizes to non-null, every amount that is blank, unparseable or without
\* a column being 0.0, and it raises on no cell content.
C9_ConvertsDatedRowsInOrder ==
    (op = "_process_dataframe_to_transactions" /\ pc = "done") =>
        out = Returned([i \in DOMAIN Kept |-> ExpectedTransaction(Kept[i])])
\* a dropped row between two kept ones, the second with unparseable amounts
C9_Witness ==
    /\ op = "_process_dataframe_to_transactions" /\ pc = "done"
    /\ input.variants = <<1, 3, 8>>
    /\ input.columns = <<<<"d", "a", "t", "e">>, <<"d", "e", "b", "i", "t">>>>
    /\ Len(out.value) = 2 /\ out.value[2].Debit = PyFloat(0)

\* C10: every transaction emitted has debit >= 0 and credit >= 0.
C10_DebitCreditNonNegative ==
    \A i \in DOMAIN out.value :
        op = "_process_dataframe_to_transactions" =>
            out.value[i].Debit.v >= 0 /\ out.value[i].Credit.v >= 0

(***************************************************************************)
(* The column matcher on one header.  A header is a pattern of              *)
(* _COLUMN_MAP as written, in upper case, or between blanks; or one of a   *)
(* few headers that carry no pattern as a whole word.                      *)
(***************************************************************************)
UpperChar(c) ==
    IF c \in Range(LowerSeq)
    THEN UpperSeq[CHOOSE i \in DOMAIN LowerSeq : LowerSeq[i] = c]
    ELSE c
upper(s) == [i \in DOMAIN s |-> UpperChar(s[i])]
Writings == {"plain", "upper", "padded"}
Written(pat, writing) ==
    CASE writing = "plain" -> pat
      [] writing = "upper" -> upper(pat)
      [] OTHER -> <<" ">> \o pat \o <<" ", " ">>
PatternHeaders ==
    {[field |-> k, pattern |-> pat, header |-> PyStr(Written(pat, w))] :
        k \in DOMAIN _COLUMN_MAP, pat \in UNION Range(_COLUMN_MAP), w \in Writings}
OtherHeaders ==
    {[field |-> 0, pattern |-> <<>>, header |-> h] :
        h \in {PyNone, PyStr(<<>>), PyStr(<<" ", " ">>), PyStr(<<"a", "m", "o", "u", "n", "t">>), PyStr(<<"d", "a", "t", "e", "d">>),
               PyStr(<<"c", "r", "e", "d", "i", "t", "s">>), PyStr(<<"t", "x", "n", "_", "d", "a", "t", "e">>), PyStr(<<"D", "r", "a", "w", "n">>), PyStr(<<"r", "e", "f", " ", "n", "o">>)}}
MatchInputs ==
    {in \in PatternHeaders : in.pattern \in _COLUMN_MAP[in.field]} \cup OtherHeaders

InitMatch ==
    /\ op = "_fuzzy_match_column"
    /\ input \in MatchInputs
    /\ Idle

\* lines 28-38
Match ==
    /\ op = "_fuzzy_match_column" /\ pc = "start"
    /\ out' = Returned(_fuzzy_match_column(input.header))
    /\ pc' = "done"
    /\ UNCHANGED <<op, input, calls, resA, resB, ocr, llm, extracted, df, tab, data>>

NextMatch == Match
SpecMatch == InitMatch /\ [][NextMatch]_vars

\* C11: a header that is a pattern of a field is matched to that field, and no
\* pattern of another field occurs in it as a whole word; a header in which no
\* pattern occurs as a whole word, an empty one included, is matched to None.
C11_PatternsMatchTheirField ==
    (op = "_fuzzy_match_column" /\ pc = "done") =>
        IF input.field = 0
        THEN out = Returned(PyNone)
        ELSE /\ out = Returned(PyStr(StdKeys[input.field]))
             /\ Hits(lower(strip(input.header.v))) = {input.field}
\* a two-word pattern of description written in upper case: one word of it is also
\* the first word of a date pattern
C11_Witness ==
    /\ op = "_fuzzy_match_column" /\ pc = "done"
    /\ input.header = PyStr(<<"T", "R", "A", "N", "S", "A", "C", "T", "I", "O", "N", " ", "D", "E", "T", "A", "I", "L", "S">>)
    /\ input.field = 2
    /\ out = Returned(PyStr(<<"d", "e", "s", "c", "r", "i", "p", "t", "i", "o", "n">>))

=============================================================================
